---- MODULE Spec2Model ----
(***************************************************************************)
(* Model of upkgrust.rs: main() reads the process arguments, prints a     *)
(* usage line when fewer than two are present, and otherwise prints one   *)
(* line per argument after the program name.                              *)
(*                                                                         *)
(* A string is a sequence of one-character strings.  An OS argument is a  *)
(* sequence of units: a unit is a character or BadByte, a byte that is    *)
(* not part of any valid UTF-8 encoding.  std::env::args() yields String  *)
(* values and panics on an argument that is not valid Unicode.            *)
(***************************************************************************)
EXTENDS Integers, Sequences, FiniteSets

\* Largest number of arguments after the program name.
MaxTrailing == 3

\* A unit of an OS argument that makes it invalid Unicode.
BadByte == "0xFF"

\* The literals of the source.
FLAG_V == <<"-", "v">>
FLAG_VERSION == <<"-", "-", "v", "e", "r", "s", "i", "o", "n">>
FLAG_H == <<"-", "h">>
FLAG_HELP == <<"-", "-", "h", "e", "l", "p">>
USAGE_MSG == <<"U", "s", "a", "g", "e", ":", " ", "P", "l", "e", "a", "s", "e", " ", "p", "r", "o", "v", "i", "d", "e", " ", "a", "t", " ", "l", "e", "a", "s", "t", " ", "o", "n", "e", " ", "a", "r", "g", "u", "m", "e", "n", "t", ".">>
VERSION_MSG == <<"u", "p", "k", "g", "r", "u", "s", "t", " ", "(", "u", "l", "i", "n", "u", "x", ")", " ", "1", ".", "0">>
HELP_MSG == <<"u", "s", "a", "g", "e", " ", "o", "p", "t", "i", "o", "n", " ", "a", "n", "d", " ", "h", "e", "l", "p", " ", "m", "e", "s", "s", "a", "g", "e", ".", ".", ".">>
UNKNOWN_PREFIX == <<"U", "n", "k", "n", "o", "w", "n", " ", "o", "p", "t", "i", "o", "n", ":", " ">>
MIN_COUNT == 2

\* The line the runtime writes to standard error when main panics.
PANIC_MSG == <<"p", "a", "n", "i", "c", "k", "e", "d">>

\* Arguments the environment may pass after the program name: the four
\* flags, a case variant, a combined flag, the empty string, a padded flag,
\* a proper prefix of a flag, and an argument that is not valid Unicode.
ArgValues ==
    { FLAG_V, FLAG_VERSION, FLAG_H, FLAG_HELP,
      <<"-", "V">>,
      <<"-", "v", "h">>,
      << >>,
      <<" ", "-", "v">>,
      <<"-", "-", "h", "e", "l">>,
      <<BadByte>> }

\* Names the program may be invoked under.
ProgNames ==
    { <<"u", "p", "k", "g", "r", "u", "s", "t">>, FLAG_V, <<BadByte>> }

\* Sequences over S of length exactly n.
SeqsOfLen(S, n) == [1..n -> S]

\* Every argument vector the environment may hand to the process: the empty
\* vector, or a program name followed by at most MaxTrailing arguments.
ArgVectors ==
    { << >> } \cup
    UNION { { <<p>> \o t : p \in ProgNames, t \in SeqsOfLen(ArgValues, n) }
            : n \in 0..MaxTrailing }

VARIABLES
    os_args,    \* the argument vector of the process, as the OS holds it
    pc,         \* position of main: "count", "collect", "loop", "exited"
    args,       \* the Vec<String> of line 8
    iter,       \* what args.iter().skip(1) has yet to yield
    stdout,     \* the lines written to standard output
    stderr,     \* the lines written to standard error
    exit_code,  \* -1 while the process runs, then its exit status
    iters       \* number of loop bodies executed

vars == <<os_args, pc, args, iter, stdout, stderr, exit_code, iters>>

\* OsString::into_string succeeds exactly on valid Unicode.
IsUnicode(os) == \A i \in 1..Len(os) : os[i] # BadByte

\* Args::next unwraps into_string of every argument it yields, so walking
\* the whole iterator succeeds only if every argument is valid Unicode.
AllUnicode(argv) == \A i \in 1..Len(argv) : IsUnicode(argv[i])

\* The String a valid OS argument converts to: the same characters.
IntoString(os) == [i \in 1..Len(os) |-> os[i]]

\* env::args().count()
ArgsCount(argv) == Len(argv)

\* env::args().collect()
CollectArgs(argv) == [i \in 1..Len(argv) |-> IntoString(argv[i])]

\* iter() without the skip
SkipKeepsAll(v) == v

\* iter().skip(1): everything but the first element, in order
SkipOne(v) == SubSeq(v, 2, Len(v))

\* arg == "-v" alone
IsVersionShortOnly(arg) == arg = FLAG_V

\* a comparison that ignores case
ToLower(c) == IF c = "V" THEN "v" ELSE IF c = "H" THEN "h" ELSE c
IsVersionAnyCase(arg) ==
    LET low == [i \in 1..Len(arg) |-> ToLower(arg[i])]
    IN  low = FLAG_V \/ low = FLAG_VERSION

\* arg == "-v" || arg == "--version"
IsVersion(arg) == arg = FLAG_V \/ arg = FLAG_VERSION

\* arg == "-h" alone
IsHelpShortOnly(arg) == arg = FLAG_H

\* arg == "-h" || arg == "--help"
IsHelp(arg) == arg = FLAG_H \/ arg = FLAG_HELP

\* format of "Unknown option: {}"
UnknownLine(arg) == UNKNOWN_PREFIX \o arg

Init ==
    /\ os_args \in ArgVectors
    /\ pc = "count"
    /\ args = << >>
    /\ iter = << >>
    /\ stdout = << >>
    /\ stderr = << >>
    /\ exit_code = -1
    /\ iters = 0

\* Line 4 on an argument that is not valid Unicode: count() walks the
\* iterator, the unwrap panics, and the process exits with status 101.
CountPanics ==
    /\ pc = "count"
    /\ ~AllUnicode(os_args)
    /\ stderr' = Append(stderr, PANIC_MSG)
    /\ exit_code' = 101
    /\ pc' = "exited"
    /\ UNCHANGED <<os_args, args, iter, stdout, iters>>

\* Lines 4-7: fewer than two arguments.
UsageReturn ==
    /\ pc = "count"
    /\ AllUnicode(os_args)
    /\ ArgsCount(os_args) < MIN_COUNT
    /\ stdout' = Append(stdout, USAGE_MSG)
    /\ exit_code' = 0
    /\ pc' = "exited"
    /\ UNCHANGED <<os_args, args, iter, stderr, iters>>

\* Line 4 with at least two arguments: fall through to line 8.
CountOk ==
    /\ pc = "count"
    /\ AllUnicode(os_args)
    /\ ~(ArgsCount(os_args) < MIN_COUNT)
    /\ pc' = "collect"
    /\ UNCHANGED <<os_args, args, iter, stdout, stderr, exit_code, iters>>

\* Lines 8-9: collect the arguments again and start the loop's iterator.
\* collect() walks the same iterator as count() and panics like it; the
\* arguments do not change in between, so after CountOk it never does.
Collect ==
    /\ pc = "collect"
    /\ IF AllUnicode(os_args)
       THEN /\ args' = CollectArgs(os_args)
            /\ iter' = SkipOne(CollectArgs(os_args))
            /\ pc' = "loop"
            /\ UNCHANGED <<stderr, exit_code>>
       ELSE /\ stderr' = Append(stderr, PANIC_MSG)
            /\ exit_code' = 101
            /\ pc' = "exited"
            /\ UNCHANGED <<args, iter>>
    /\ UNCHANGED <<os_args, stdout, iters>>

\* Lines 10-11, remembering that the version was already printed.
VersionArmOnce ==
    /\ pc = "loop"
    /\ iter # << >>
    /\ IsVersion(Head(iter))
    /\ stdout' = Append(stdout,
                        IF \E i \in 1..Len(stdout) : stdout[i] = VERSION_MSG
                        THEN << >> ELSE VERSION_MSG)
    /\ iter' = Tail(iter)
    /\ iters' = iters + 1
    /\ UNCHANGED <<os_args, pc, args, stderr, exit_code>>

\* Lines 10-11.
VersionArm ==
    /\ pc = "loop"
    /\ iter # << >>
    /\ IsVersion(Head(iter))
    /\ stdout' = Append(stdout, VERSION_MSG)
    /\ iter' = Tail(iter)
    /\ iters' = iters + 1
    /\ UNCHANGED <<os_args, pc, args, stderr, exit_code>>

\* Lines 12-13.
HelpArm ==
    /\ pc = "loop"
    /\ iter # << >>
    /\ ~IsVersion(Head(iter))
    /\ IsHelp(Head(iter))
    /\ stdout' = Append(stdout, HELP_MSG)
    /\ iter' = Tail(iter)
    /\ iters' = iters + 1
    /\ UNCHANGED <<os_args, pc, args, stderr, exit_code>>

\* Lines 14-16, leaving the loop after an unrecognized option.
UnknownArmBreaks ==
    /\ pc = "loop"
    /\ iter # << >>
    /\ ~IsVersion(Head(iter))
    /\ ~IsHelp(Head(iter))
    /\ stdout' = Append(stdout, UnknownLine(Head(iter)))
    /\ iter' = << >>
    /\ iters' = iters + 1
    /\ UNCHANGED <<os_args, pc, args, stderr, exit_code>>

\* Lines 14-16.
UnknownArm ==
    /\ pc = "loop"
    /\ iter # << >>
    /\ ~IsVersion(Head(iter))
    /\ ~IsHelp(Head(iter))
    /\ stdout' = Append(stdout, UnknownLine(Head(iter)))
    /\ iter' = Tail(iter)
    /\ iters' = iters + 1
    /\ UNCHANGED <<os_args, pc, args, stderr, exit_code>>

\* Lines 17-18: the iterator is exhausted, main returns.
LoopEnd ==
    /\ pc = "loop"
    /\ iter = << >>
    /\ exit_code' = 0
    /\ pc' = "exited"
    /\ UNCHANGED <<os_args, args, iter, stdout, stderr, iters>>

Next ==
    \/ CountPanics
    \/ UsageReturn
    \/ CountOk
    \/ Collect
    \/ VersionArm
    \/ HelpArm
    \/ UnknownArm
    \/ LoopEnd

Spec == Init /\ [][Next]_vars

\* main is one thread that the scheduler always lets take its next step.
FairSpec == Spec /\ WF_vars(Next)

(***************************************************************************)
(* The properties.  Trailing argument i is os_args[i + 1]; N is the       *)
(* number of trailing arguments.                                           *)
(***************************************************************************)
N == IF Len(os_args) = 0 THEN 0 ELSE Len(os_args) - 1
Exited == exit_code # -1
FourLiterals == { FLAG_V, FLAG_VERSION, FLAG_H, FLAG_HELP }

\* The line the specification gives for a trailing argument.
ExpectedLine(a) ==
    IF a \in { FLAG_V, FLAG_VERSION } THEN VERSION_MSG
    ELSE IF a \in { FLAG_H, FLAG_HELP } THEN HELP_MSG
    ELSE UNKNOWN_PREFIX \o a

\* The printed lines that belong to a trailing argument.
ArgLines == IF N >= 1 THEN { i \in 1..Len(stdout) : i <= N } ELSE {}

\* C1: with only the program name in the argument list, the whole standard
\* output is the single usage line, and no per-argument line is ever printed.
C1_UsageOnly ==
    Len(os_args) = 1 =>
        /\ \A i \in 1..Len(stdout) : stdout[i] = USAGE_MSG
        /\ Exited => stdout = <<USAGE_MSG>>

\* C2: with N >= 1 trailing arguments the output is exactly N lines, line i
\* being the line for trailing argument i, and the usage line is not printed.
C2_OneLinePerArgument ==
    (Exited /\ N >= 1) =>
        /\ Len(stdout) = N
        /\ \A i \in ArgLines : stdout[i] = ExpectedLine(os_args[i + 1])
        /\ \A i \in 1..Len(stdout) : stdout[i] # USAGE_MSG

\* C3: whatever the arguments, nothing is written to standard error and the
\* process never ends with a status other than success.
C3_AlwaysSuccess ==
    /\ stderr = << >>
    /\ exit_code \in { -1, 0 }

\* C4: the line printed for a trailing argument that is none of the four
\* literals is "Unknown option: " followed by the argument, unchanged.
C4_UnknownVerbatim ==
    \A i \in ArgLines :
        os_args[i + 1] \notin FourLiterals =>
            stdout[i] = UNKNOWN_PREFIX \o os_args[i + 1]

C4_Witness ==
    /\ exit_code = 0
    /\ Len(os_args) = 4
    /\ os_args[2] = <<"-", "V">>
    /\ os_args[3] = << >>
    /\ os_args[4] = <<" ", "-", "v">>
    /\ Len(stdout) = 3
    /\ stdout[2] = UNKNOWN_PREFIX

\* C5: the line printed for a trailing argument equal to -v or --version,
\* at any position, is the version line.
C5_VersionLine ==
    \A i \in ArgLines :
        os_args[i + 1] \in { FLAG_V, FLAG_VERSION } => stdout[i] = VERSION_MSG

C5_Witness ==
    /\ exit_code = 0
    /\ Len(os_args) = 4
    /\ os_args[2] = <<"-", "v", "h">>
    /\ os_args[3] = FLAG_VERSION
    /\ os_args[4] = FLAG_V
    /\ stdout[2] = VERSION_MSG
    /\ stdout[3] = VERSION_MSG

\* C6: the line printed for a trailing argument equal to -h or --help, at
\* any position, is the help line.
C6_HelpLine ==
    \A i \in ArgLines :
        os_args[i + 1] \in { FLAG_H, FLAG_HELP } => stdout[i] = HELP_MSG

C6_Witness ==
    /\ exit_code = 0
    /\ Len(os_args) = 4
    /\ os_args[2] = FLAG_V
    /\ os_args[3] = FLAG_HELP
    /\ os_args[4] = FLAG_H
    /\ stdout[2] = HELP_MSG
    /\ stdout[3] = HELP_MSG

C8_OnlyProgramNameSkipped ==
    /\ pc = "loop" =>
           /\ Len(stdout) = iters
           /\ iter = SubSeq(os_args, iters + 2, Len(os_args))
    /\ (exit_code = 0 /\ Len(os_args) >= 2) => Len(stdout) = Len(os_args) - 1

C8_Witness ==
    /\ exit_code = 0
    /\ Len(os_args) = 3
    /\ os_args[1] = FLAG_V
    /\ os_args[2] = FLAG_HELP
    /\ os_args[3] = <<"-", "V">>
    /\ stdout = << HELP_MSG, UNKNOWN_PREFIX \o os_args[3] >>

\* C9: the line for a trailing argument depends on its value alone: in
\* every run it is the same fixed function of the argument, so equal
\* arguments, at different positions of one run or in different runs, get
\* equal lines, whatever stands between them and whatever was printed before.
C9_SameValueSameLine ==
    /\ \A i, j \in ArgLines :
           os_args[i + 1] = os_args[j + 1] => stdout[i] = stdout[j]
    /\ \A i \in ArgLines : stdout[i] = ExpectedLine(os_args[i + 1])

C9_Witness ==
    /\ exit_code = 0
    /\ Len(os_args) = 4
    /\ os_args[2] = FLAG_V
    /\ os_args[3] = <<"-", "v", "h">>
    /\ os_args[4] = FLAG_V
    /\ stdout[1] = stdout[3]
    /\ stdout[1] # stdout[2]

\* C10: main runs to completion for every argument list: after the usage
\* line with no trailing arguments, otherwise after exactly N loop bodies
\* over the argument list that was counted.
C10_RunsToCompletion ==
    Exited =>
        /\ exit_code = 0
        /\ IF ArgsCount(os_args) < MIN_COUNT
           THEN stdout = <<USAGE_MSG>> /\ iters = 0
           ELSE iters = N /\ Len(args) = ArgsCount(os_args)

====
